---- MODULE Spec2Model ----
(***************************************************************************)
(* Model of the two pipeline stages of us_visa:                            *)
(*   components/data_validation.py   (DataValidation)                      *)
(*   components/model_evaluation.py  (ModelEvaluation)                     *)
(* Each stage is a straight-line try block; every statement that can raise *)
(* is one step of the stage's program counter.                             *)
(***************************************************************************)
EXTENDS Integers, Sequences, FiniteSets, TLC

VARIABLES
    \* ---- DataValidation ----
    schema_config,            \* self._schema_config (read_yaml_file result)
    data_ingestion_artifact,  \* trained_file_path / test_file_path
    data_validation_config,   \* drift_report_file_path
    csv_files,                \* the file system: path -> CSV file
    v_pc,                     \* position inside initiate_data_validation
    train_df, test_df,        \* frames read by read_data
    validation_error_msg,     \* the accumulated failure phrases
    status_train_cols, status_test_cols,
    exist_train, exist_test,  \* is_column_exist calls: locals and result
    data_validation_artifact, \* the returned DataValidationArtifact
    v_exception,              \* exception chain propagated to the caller
    \* ---- ModelEvaluation ----
    model_eval_config,        \* ModelEvaluationConfig
    model_trainer_artifact,   \* trained_model_file_path
    model_files,              \* the file system: path -> pickled predictor
    e_pc,                     \* position inside initiate_model_evaluation
    e_frame,                  \* evaluate_model locals: test_df, x, y, ...
    loaded_objects,           \* paths handed to load_object, in order
    steps,                    \* statements of evaluate_model that were started
    evaluate_model_response,  \* the returned EvaluateModelResponse
    model_evaluation_artifact,\* the returned ModelEvaluationArtifact
    e_exception               \* exception chain propagated to the caller

v_inputs == <<schema_config, data_ingestion_artifact, data_validation_config, csv_files>>
v_locals == <<train_df, test_df, validation_error_msg, status_train_cols,
              status_test_cols, exist_train, exist_test>>
v_vars == <<v_inputs, v_pc, v_locals, data_validation_artifact, v_exception>>

e_inputs == <<model_eval_config, model_trainer_artifact, model_files>>
e_vars == <<e_inputs, e_pc, e_frame, loaded_objects, steps,
            evaluate_model_response, model_evaluation_artifact, e_exception>>

vars == <<v_vars, e_vars>>

-----------------------------------------------------------------------------
(* Bounds of the model *)

MaxCols == 2
MaxReq == 1
MaxRows == 3

(* Helpers *)

Range(s) == {s[i] : i \in DOMAIN s}

Min(a, b) == IF a < b THEN a ELSE b

BoundedSeq(S, n) == UNION {[1..k -> S] : k \in 0..n}

\* Column names that data files and the schema's required lists draw from.
NameOrder == <<"A", "B", "C">>
Names == Range(NameOrder)

\* The header rows a CSV file can have: pandas mangles repeated header names,
\* so the columns of a DataFrame read by read_csv are pairwise distinct.
Headers == {SelectSeq(NameOrder, LAMBDA n : n \in S) :
              S \in {T \in SUBSET Names : Cardinality(T) <= MaxCols}}

\* The `columns` list of the schema document; only its length is ever used.
SchemaColumnPool == <<"A", "B", "C", "D", "E", "F">>
SchemaColumnLists == {SubSeq(SchemaColumnPool, 1, n) :
                        n \in 0..Min(MaxCols, Len(SchemaColumnPool))}

SchemaKeys == {"columns", "numerical_columns", "categorical_columns"}

\* A schema document: the keys it has, and the list under each key.
Schemas ==
    {s \in [keys : SUBSET SchemaKeys,
            columns : SchemaColumnLists,
            numerical_columns : BoundedSeq(Names, MaxReq),
            categorical_columns : BoundedSeq(Names, MaxReq)] :
        \A k \in SchemaKeys \ s.keys : s[k] = <<>>}

TrainPath == "train.csv"
TestPath == "test.csv"
DriftReportPath == "report.yaml"

CsvFiles == [readable : {TRUE}, columns : Headers]
              \cup {[readable |-> FALSE, columns |-> <<>>]}

NoFrame == [loaded |-> FALSE, columns |-> <<>>]
NoExistCall == [called |-> FALSE, raised |-> FALSE,
                missing_numerical_columns |-> <<>>,
                missing_categorical_columns |-> <<>>, result |-> FALSE]
NoValidationArtifact == [produced |-> FALSE, validation_status |-> FALSE,
                         message |-> "", drift_report_file_path |-> ""]

-----------------------------------------------------------------------------
(* Exceptions *)

\* USvisaException(e, sys): a new exception wrapping the one caught.
USvisaException(e) == <<"USvisaException">> \o e

NoException == <<>>

-----------------------------------------------------------------------------
(* DataValidation *)

TrainCountPhrase == "Columns are missing in training dataframe. "
TestCountPhrase == "Columns are missing in test dataframe. "
TrainExistPhrase == "Required numerical/categorical columns are missing in training dataframe. "
TestExistPhrase == "Required numerical/categorical columns are missing in test dataframe. "
SuccessMessage == "Data validation successful. No schema or column issues found."
FailurePrefix == "Data validation failed due to: "

\* self._schema_config[key]: KeyError when the document lacks the key.
HasKey(key) == key \in schema_config.keys

\* the column names are compared instead of the column counts
validate_number_of_columns_ByName(dataframe) ==
    IF ~HasKey("columns")
    THEN [raised |-> TRUE, status |-> FALSE]
    ELSE [raised |-> FALSE,
          status |-> Range(dataframe.columns) = Range(schema_config.columns)]

\* len(dataframe.columns) == len(self._schema_config["columns"])
validate_number_of_columns(dataframe) ==
    IF ~HasKey("columns")
    THEN [raised |-> TRUE, status |-> FALSE]
    ELSE [raised |-> FALSE,
          status |-> Len(dataframe.columns) = Len(schema_config.columns)]

\* for column in required: if column not in dataframe_columns: missing.append(column)
RECURSIVE CollectMissing(_, _, _)
CollectMissing(required, dataframe_columns, missing) ==
    IF required = <<>> THEN missing
    ELSE CollectMissing(Tail(required), dataframe_columns,
                        IF Head(required) \notin Range(dataframe_columns)
                        THEN Append(missing, Head(required))
                        ELSE missing)

\* the returned status forgets the categorical list
is_column_exist_NumericalOnly(df) ==
    IF ~HasKey("numerical_columns") \/ ~HasKey("categorical_columns")
    THEN [NoExistCall EXCEPT !.called = TRUE, !.raised = TRUE]
    ELSE LET missing_numerical_columns ==
                 CollectMissing(schema_config.numerical_columns, df.columns, <<>>)
             missing_categorical_columns ==
                 CollectMissing(schema_config.categorical_columns, df.columns, <<>>)
         IN  [called |-> TRUE, raised |-> FALSE,
              missing_numerical_columns |-> missing_numerical_columns,
              missing_categorical_columns |-> missing_categorical_columns,
              result |-> ~(Len(missing_numerical_columns) > 0)]

is_column_exist(df) ==
    IF ~HasKey("numerical_columns")
    THEN [NoExistCall EXCEPT !.called = TRUE, !.raised = TRUE]
    ELSE LET missing_numerical_columns ==
                 CollectMissing(schema_config.numerical_columns, df.columns, <<>>)
         IN  IF ~HasKey("categorical_columns")
             THEN [NoExistCall EXCEPT !.called = TRUE, !.raised = TRUE,
                       !.missing_numerical_columns = missing_numerical_columns]
             ELSE LET missing_categorical_columns ==
                          CollectMissing(schema_config.categorical_columns, df.columns, <<>>)
                  IN  [called |-> TRUE, raised |-> FALSE,
                       missing_numerical_columns |-> missing_numerical_columns,
                       missing_categorical_columns |-> missing_categorical_columns,
                       result |-> ~(Len(missing_categorical_columns) > 0
                                     \/ Len(missing_numerical_columns) > 0)]

\* except Exception: the failure is swallowed and an empty frame returned
read_data_Swallowed(file_path) ==
    [raised |-> FALSE, exception |-> NoException,
     df |-> [loaded |-> TRUE,
             columns |-> IF csv_files[file_path].readable
                         THEN csv_files[file_path].columns ELSE <<>>]]

\* pd.read_csv(file_path), any failure wrapped in USvisaException
read_data(file_path) ==
    IF csv_files[file_path].readable
    THEN [raised |-> FALSE, exception |-> NoException,
          df |-> [loaded |-> TRUE, columns |-> csv_files[file_path].columns]]
    ELSE [raised |-> TRUE, exception |-> USvisaException(<<"FileNotFoundError">>),
          df |-> NoFrame]

\* the phrase is put in front of the message instead of behind it
AppendPhrase_Prepended(msg, status, phrase) ==
    IF ~status THEN phrase \o msg ELSE msg

\* if not status: validation_error_msg += phrase
AppendPhrase(msg, status, phrase) ==
    IF ~status THEN msg \o phrase ELSE msg

\* the comparison is off by one: every message length counts as "no error"
ValidationStatus_OffByOne(msg) == Len(msg) >= 0

\* validation_status = len(validation_error_msg) == 0
ValidationStatus(msg) == Len(msg) = 0

\* except Exception as e: raise USvisaException(e, sys) from e
RaiseFromValidation(e) ==
    /\ v_pc' = "raised"
    /\ v_exception' = USvisaException(e)

ReadTrain ==
    /\ v_pc = "read_train"
    /\ LET r == read_data(data_ingestion_artifact.trained_file_path)
       IN  IF r.raised
           THEN RaiseFromValidation(r.exception) /\ UNCHANGED train_df
           ELSE train_df' = r.df /\ v_pc' = "read_test" /\ UNCHANGED v_exception
    /\ UNCHANGED <<v_inputs, test_df, validation_error_msg, status_train_cols,
                   status_test_cols, exist_train, exist_test,
                   data_validation_artifact, e_vars>>

ReadTest ==
    /\ v_pc = "read_test"
    /\ LET r == read_data(data_ingestion_artifact.test_file_path)
       IN  IF r.raised
           THEN RaiseFromValidation(r.exception) /\ UNCHANGED test_df
           ELSE test_df' = r.df /\ v_pc' = "train_cols" /\ UNCHANGED v_exception
    /\ UNCHANGED <<v_inputs, train_df, validation_error_msg, status_train_cols,
                   status_test_cols, exist_train, exist_test,
                   data_validation_artifact, e_vars>>

ValidateTrainColumns ==
    /\ v_pc = "train_cols"
    /\ LET r == validate_number_of_columns(train_df)
       IN  IF r.raised
           THEN /\ RaiseFromValidation(USvisaException(<<"KeyError">>))
                /\ UNCHANGED <<status_train_cols, validation_error_msg>>
           ELSE /\ status_train_cols' = r.status
                /\ validation_error_msg' =
                       AppendPhrase(validation_error_msg, r.status, TrainCountPhrase)
                /\ v_pc' = "test_cols"
                /\ UNCHANGED v_exception
    /\ UNCHANGED <<v_inputs, train_df, test_df, status_test_cols, exist_train,
                   exist_test, data_validation_artifact, e_vars>>

ValidateTestColumns ==
    /\ v_pc = "test_cols"
    /\ LET r == validate_number_of_columns(test_df)
       IN  IF r.raised
           THEN /\ RaiseFromValidation(USvisaException(<<"KeyError">>))
                /\ UNCHANGED <<status_test_cols, validation_error_msg>>
           ELSE /\ status_test_cols' = r.status
                /\ validation_error_msg' =
                       AppendPhrase(validation_error_msg, r.status, TestCountPhrase)
                /\ v_pc' = "train_exist"
                /\ UNCHANGED v_exception
    /\ UNCHANGED <<v_inputs, train_df, test_df, status_train_cols, exist_train,
                   exist_test, data_validation_artifact, e_vars>>

TrainColumnsExist ==
    /\ v_pc = "train_exist"
    /\ LET r == is_column_exist(train_df)
       IN  /\ exist_train' = r
           /\ IF r.raised
              THEN /\ RaiseFromValidation(USvisaException(<<"KeyError">>))
                   /\ UNCHANGED validation_error_msg
              ELSE /\ validation_error_msg' =
                          AppendPhrase(validation_error_msg, r.result, TrainExistPhrase)
                   /\ v_pc' = "test_exist"
                   /\ UNCHANGED v_exception
    /\ UNCHANGED <<v_inputs, train_df, test_df, status_train_cols, status_test_cols,
                   exist_test, data_validation_artifact, e_vars>>

TestColumnsExist ==
    /\ v_pc = "test_exist"
    /\ LET r == is_column_exist(test_df)
       IN  /\ exist_test' = r
           /\ IF r.raised
              THEN /\ RaiseFromValidation(USvisaException(<<"KeyError">>))
                   /\ UNCHANGED validation_error_msg
              ELSE /\ validation_error_msg' =
                          AppendPhrase(validation_error_msg, r.result, TestExistPhrase)
                   /\ v_pc' = "build"
                   /\ UNCHANGED v_exception
    /\ UNCHANGED <<v_inputs, train_df, test_df, status_train_cols, status_test_cols,
                   exist_train, data_validation_artifact, e_vars>>

\* final_validation_message: the success string, or the f-string around the phrases
FinalValidationMessage(validation_status, msg) ==
    IF validation_status THEN SuccessMessage ELSE FailurePrefix \o msg

BuildValidationArtifact ==
    /\ v_pc = "build"
    /\ LET validation_status == ValidationStatus(validation_error_msg)
       IN  data_validation_artifact' =
               [produced |-> TRUE,
                validation_status |-> validation_status,
                message |-> FinalValidationMessage(validation_status, validation_error_msg),
                drift_report_file_path |-> data_validation_config.drift_report_file_path]
    /\ v_pc' = "done"
    /\ UNCHANGED <<v_inputs, v_locals, v_exception, e_vars>>

-----------------------------------------------------------------------------
(* ModelEvaluation *)

\* us_visa.constants.TARGET_COLUMN
TARGET_COLUMN == "case_status"

YearColumn == "yr_of_estab"
AgeColumn == "company_age"
FeatureColumn == "education"

Certified == "Certified"
Denied == "Denied"
Withdrawn == "Withdrawn"
Labels == {Certified, Denied, Withdrawn}

\* TargetValueMapping()._asdict(): the fixed label -> integer table
TargetValueMapping == [l \in {Certified, Denied} |-> IF l = Certified THEN 1 ELSE 0]

\* The test CSV files of the evaluation stage: unreadable, or a header with or
\* without the year and target columns and the target column's values by row.
EvalHeaders == {<<FeatureColumn>> \o yr \o tg :
                  yr \in {<<>>, <<YearColumn>>}, tg \in {<<>>, <<TARGET_COLUMN>>}}
EvalCsvFiles ==
    {[readable |-> FALSE, columns |-> <<>>, target |-> <<>>]}
      \cup {f \in [readable : {TRUE}, columns : EvalHeaders,
                   target : BoundedSeq(Labels, MaxRows)] :
              IF TARGET_COLUMN \in Range(f.columns)
              THEN f.target # <<>> ELSE f.target = <<>>}

TrainedModelPaths == {"model.pkl", "model_retrained.pkl"}
BestModelPath == "best_model.pkl"
ModelPaths == TrainedModelPaths \cup {BestModelPath}

\* A pickled predictor: predict() raises, or labels the i-th row outputs[i].
Predictors == [raises : {FALSE}, outputs : [1..MaxRows -> {0, 1}]]
                \cup {[raises |-> TRUE, outputs |-> [i \in 1..MaxRows |-> 0]]}
NoFile == [exists |-> FALSE, predictor |-> [raises |-> TRUE, outputs |-> <<>>]]
ProductionPredictor == [raises |-> FALSE, outputs |-> [i \in 1..MaxRows |-> 1]]

None == -1

NoFrameLocals ==
    [test_df |-> <<>>, x |-> <<>>, y |-> <<>>, mapped |-> FALSE,
     trained_model_obj |-> NoFile.predictor, y_pred_trained_model |-> <<>>,
     trained_model_f1_score |-> None]
NoResponse ==
    [returned |-> FALSE, trained_model_f1_score |-> None,
     best_model_f1_score |-> None, is_model_accepted |-> FALSE, difference |-> 0]
NoEvaluationArtifact ==
    [produced |-> FALSE, is_model_accepted |-> FALSE, trained_model_path |-> "",
     changed_accuracy |-> 0]

\* The values a pandas Series of the target column holds: strings as read from
\* the file, integers once replaced.
StrValue(l) == [kind |-> "str", str |-> l, int |-> 0]
IntValue(n) == [kind |-> "int", str |-> "", int |-> n]

\* test_df[TARGET_COLUMN]: the target column's values as read
TargetSeries(file) == [i \in DOMAIN file.target |-> StrValue(file.target[i])]

\* y.replace(target_mapping): mapped labels become integers, others stay
Replace(y, mapping) ==
    [i \in DOMAIN y |-> IF y[i].kind = "str" /\ y[i].str \in DOMAIN mapping
                        THEN IntValue(mapping[y[i].str]) ELSE y[i]]

CountRows(y_true, y_pred, t, p) ==
    Cardinality({i \in DOMAIN y_true :
                   (y_true[i] = IntValue(1)) = t /\ (y_pred[i] = IntValue(1)) = p})

\* sklearn.metrics.f1_score, binary, pos_label = 1, in thousandths;
\* 0 when there is no positive label and no positive prediction
f1_score(y_true, y_pred) ==
    LET tp == CountRows(y_true, y_pred, TRUE, TRUE)
        fp == CountRows(y_true, y_pred, FALSE, TRUE)
        fn == CountRows(y_true, y_pred, TRUE, FALSE)
    IN  IF 2 * tp + fp + fn = 0 THEN 0
        ELSE (2000 * tp) \div (2 * tp + fp + fn)

\* a failing statement is logged and run again
RaiseFromEvaluateModel_Retried(cause) ==
    /\ e_pc' = e_pc
    /\ e_exception' = NoException

\* evaluate_model: except Exception as e: raise USvisaException(e, sys)
\* initiate_model_evaluation: except Exception as e: raise USvisaException(e, sys) from e
RaiseFromEvaluateModel(cause) ==
    /\ e_pc' = "raised"
    /\ e_exception' = USvisaException(USvisaException(<<cause>>))

Step(name) == steps' = Append(steps, name)

e_results == <<evaluate_model_response, model_evaluation_artifact>>
e_frozen == <<e_inputs, data_ingestion_artifact, csv_files,
              schema_config, data_validation_config, v_pc, v_locals,
              data_validation_artifact, v_exception>>

\* test_df = pd.read_csv(self.data_ingestion_artifact.test_file_path)
ReadTestCsv ==
    /\ e_pc = "read_csv"
    /\ Step("read_csv")
    /\ LET file == csv_files[data_ingestion_artifact.test_file_path]
       IN  IF file.readable
           THEN /\ e_frame' = [e_frame EXCEPT !.test_df = file.columns]
                /\ e_pc' = "company_age"
                /\ UNCHANGED e_exception
           ELSE /\ RaiseFromEvaluateModel("FileNotFoundError")
                /\ UNCHANGED e_frame
    /\ UNCHANGED <<e_frozen, loaded_objects, e_results>>

\* test_df['company_age'] = CURRENT_YEAR - test_df['yr_of_estab']
AddCompanyAge ==
    /\ e_pc = "company_age"
    /\ Step("company_age")
    /\ IF YearColumn \in Range(e_frame.test_df)
       THEN /\ e_frame' = [e_frame EXCEPT !.test_df = Append(@, AgeColumn)]
            /\ e_pc' = "split"
            /\ UNCHANGED e_exception
       ELSE /\ RaiseFromEvaluateModel("KeyError")
            /\ UNCHANGED e_frame
    /\ UNCHANGED <<e_frozen, loaded_objects, e_results>>

\* x = test_df.drop(TARGET_COLUMN, axis=1); y = test_df[TARGET_COLUMN]
SplitFeaturesAndTarget ==
    /\ e_pc = "split"
    /\ Step("split")
    /\ IF TARGET_COLUMN \in Range(e_frame.test_df)
       THEN /\ e_frame' = [e_frame EXCEPT
                   !.x = SelectSeq(e_frame.test_df, LAMBDA c : c # TARGET_COLUMN),
                   !.y = TargetSeries(csv_files[data_ingestion_artifact.test_file_path])]
            /\ e_pc' = "replace"
            /\ UNCHANGED e_exception
       ELSE /\ RaiseFromEvaluateModel("KeyError")
            /\ UNCHANGED e_frame
    /\ UNCHANGED <<e_frozen, loaded_objects, e_results>>

\* y = y.replace(TargetValueMapping()._asdict())
MapTarget ==
    /\ e_pc = "replace"
    /\ Step("replace")
    /\ e_frame' = [e_frame EXCEPT !.y = Replace(@, TargetValueMapping), !.mapped = TRUE]
    /\ e_pc' = "load_object"
    /\ UNCHANGED <<e_frozen, loaded_objects, e_results, e_exception>>

\* trained_model_obj = load_object(file_path=...trained_model_file_path)
LoadTrainedModel ==
    /\ e_pc = "load_object"
    /\ Step("load_object")
    /\ LET file_path == model_trainer_artifact.trained_model_file_path
       IN  /\ loaded_objects' = Append(loaded_objects, file_path)
           /\ IF model_files[file_path].exists
              THEN /\ e_frame' = [e_frame EXCEPT
                          !.trained_model_obj = model_files[file_path].predictor]
                   /\ e_pc' = "predict"
                   /\ UNCHANGED e_exception
              ELSE /\ RaiseFromEvaluateModel("FileNotFoundError")
                   /\ UNCHANGED e_frame
    /\ UNCHANGED <<e_frozen, e_results>>

\* y_pred_trained_model = trained_model_obj.predict(x)
Predict ==
    /\ e_pc = "predict"
    /\ Step("predict")
    /\ IF e_frame.trained_model_obj.raises
       THEN /\ RaiseFromEvaluateModel("PredictError")
            /\ UNCHANGED e_frame
       ELSE /\ e_frame' = [e_frame EXCEPT !.y_pred_trained_model =
                   [i \in DOMAIN e_frame.y |->
                      IntValue(e_frame.trained_model_obj.outputs[i])]]
            /\ e_pc' = "f1_score"
            /\ UNCHANGED e_exception
    /\ UNCHANGED <<e_frozen, loaded_objects, e_results>>

\* trained_model_f1_score = f1_score(y, y_pred_trained_model)
ComputeF1 ==
    /\ e_pc = "f1_score"
    /\ Step("f1_score")
    /\ IF \E i \in DOMAIN e_frame.y : e_frame.y[i] \notin {IntValue(0), IntValue(1)}
       THEN /\ RaiseFromEvaluateModel("ValueError")
            /\ UNCHANGED e_frame
       ELSE /\ e_frame' = [e_frame EXCEPT !.trained_model_f1_score =
                   f1_score(e_frame.y, e_frame.y_pred_trained_model)]
            /\ e_pc' = "accept"
            /\ UNCHANGED e_exception
    /\ UNCHANGED <<e_frozen, loaded_objects, e_results>>

\* the three placeholder assignments are never overwritten
AcceptancePolicy_PlaceholdersKept(trained_model_f1_score) ==
    [best_model_f1_score |-> None, is_model_accepted |-> FALSE, difference |-> 0]

\* best_model_f1_score = None; is_model_accepted = False; difference = 0.0
\* and then the unconditional acceptance that overwrites them
AcceptancePolicy(trained_model_f1_score) ==
    LET placeholder == [best_model_f1_score |-> None, is_model_accepted |-> FALSE,
                        difference |-> 0]
    IN  [placeholder EXCEPT !.is_model_accepted = TRUE,
                            !.best_model_f1_score = trained_model_f1_score,
                            !.difference = 0]

\* the comparison against a local production model, as in the commented code
AcceptModel_ComparedWithBest ==
    /\ e_pc = "accept"
    /\ Step("accept")
    /\ LET trained == e_frame.trained_model_f1_score
           path == model_eval_config.best_model_local_path
           best == f1_score(e_frame.y, [i \in DOMAIN e_frame.y |->
                                IntValue(model_files[path].predictor.outputs[i])])
       IN  IF model_files[path].exists
           THEN /\ loaded_objects' = Append(loaded_objects, path)
                /\ evaluate_model_response' =
                       [returned |-> TRUE, trained_model_f1_score |-> trained,
                        best_model_f1_score |-> best,
                        is_model_accepted |-> trained > best,
                        difference |-> trained - best]
           ELSE /\ UNCHANGED loaded_objects
                /\ evaluate_model_response' =
                       [returned |-> TRUE, trained_model_f1_score |-> trained,
                        best_model_f1_score |-> trained,
                        is_model_accepted |-> TRUE, difference |-> 0]
    /\ e_pc' = "artifact"
    /\ UNCHANGED <<e_frozen, e_frame, model_evaluation_artifact, e_exception>>

\* lines 75-112: the acceptance policy and the EvaluateModelResponse
AcceptModel ==
    /\ e_pc = "accept"
    /\ Step("accept")
    /\ LET policy == AcceptancePolicy(e_frame.trained_model_f1_score)
       IN  evaluate_model_response' =
               [returned |-> TRUE,
                trained_model_f1_score |-> e_frame.trained_model_f1_score,
                best_model_f1_score |-> policy.best_model_f1_score,
                is_model_accepted |-> policy.is_model_accepted,
                difference |-> policy.difference]
    /\ e_pc' = "artifact"
    /\ UNCHANGED <<e_frozen, e_frame, loaded_objects, model_evaluation_artifact,
                   e_exception>>

\* the artifact points at the configured best-model path and reports the score
MakeModelEvaluationArtifact_BestPath(response) ==
    [produced |-> TRUE,
     is_model_accepted |-> response.is_model_accepted,
     trained_model_path |-> model_eval_config.best_model_local_path,
     changed_accuracy |-> response.trained_model_f1_score]

\* ModelEvaluationArtifact(is_model_accepted=..., trained_model_path=..., changed_accuracy=...)
MakeModelEvaluationArtifact(response) ==
    [produced |-> TRUE,
     is_model_accepted |-> response.is_model_accepted,
     trained_model_path |-> model_trainer_artifact.trained_model_file_path,
     changed_accuracy |-> response.difference]

BuildEvaluationArtifact ==
    /\ e_pc = "artifact"
    /\ model_evaluation_artifact' = MakeModelEvaluationArtifact(evaluate_model_response)
    /\ e_pc' = "done"
    /\ UNCHANGED <<e_frozen, e_frame, loaded_objects, steps,
                   evaluate_model_response, e_exception>>

-----------------------------------------------------------------------------
(* Specification of the validation stage *)

EvaluationIdle ==
    /\ model_eval_config = [best_model_local_path |-> BestModelPath]
    /\ model_trainer_artifact = [trained_model_file_path |-> "model.pkl"]
    /\ model_files = [p \in ModelPaths |-> NoFile]
    /\ e_pc = "idle"
    /\ e_frame = NoFrameLocals
    /\ loaded_objects = <<>>
    /\ steps = <<>>
    /\ evaluate_model_response = NoResponse
    /\ model_evaluation_artifact = NoEvaluationArtifact
    /\ e_exception = NoException

InitValidation ==
    /\ schema_config \in Schemas
    /\ data_ingestion_artifact =
           [trained_file_path |-> TrainPath, test_file_path |-> TestPath]
    /\ data_validation_config = [drift_report_file_path |-> DriftReportPath]
    /\ csv_files \in [{TrainPath, TestPath} -> CsvFiles]
    /\ v_pc = "read_train"
    /\ train_df = NoFrame
    /\ test_df = NoFrame
    /\ validation_error_msg = ""
    /\ status_train_cols = FALSE
    /\ status_test_cols = FALSE
    /\ exist_train = NoExistCall
    /\ exist_test = NoExistCall
    /\ data_validation_artifact = NoValidationArtifact
    /\ v_exception = NoException
    /\ EvaluationIdle

NextValidation ==
    \/ ReadTrain
    \/ ReadTest
    \/ ValidateTrainColumns
    \/ ValidateTestColumns
    \/ TrainColumnsExist
    \/ TestColumnsExist
    \/ BuildValidationArtifact

SpecValidation == InitValidation /\ [][NextValidation]_vars

(* Specification of the evaluation stage *)

ValidationIdle ==
    /\ schema_config = [keys |-> SchemaKeys, columns |-> <<>>,
                        numerical_columns |-> <<>>, categorical_columns |-> <<>>]
    /\ data_validation_config = [drift_report_file_path |-> DriftReportPath]
    /\ v_pc = "idle"
    /\ train_df = NoFrame
    /\ test_df = NoFrame
    /\ validation_error_msg = ""
    /\ status_train_cols = FALSE
    /\ status_test_cols = FALSE
    /\ exist_train = NoExistCall
    /\ exist_test = NoExistCall
    /\ data_validation_artifact = NoValidationArtifact
    /\ v_exception = NoException

InitEvaluation ==
    /\ ValidationIdle
    /\ data_ingestion_artifact =
           [trained_file_path |-> TrainPath, test_file_path |-> TestPath]
    /\ csv_files \in [{TestPath} -> EvalCsvFiles]
    /\ model_eval_config = [best_model_local_path |-> BestModelPath]
    /\ model_trainer_artifact \in [trained_model_file_path : TrainedModelPaths]
    /\ \E trained \in [exists : {TRUE}, predictor : Predictors] \cup {NoFile},
          best \in {[exists |-> TRUE, predictor |-> ProductionPredictor], NoFile} :
           model_files = [p \in ModelPaths |->
                            IF p = model_trainer_artifact.trained_model_file_path
                            THEN trained
                            ELSE IF p = BestModelPath THEN best ELSE NoFile]
    /\ e_pc = "read_csv"
    /\ e_frame = NoFrameLocals
    /\ loaded_objects = <<>>
    /\ steps = <<>>
    /\ evaluate_model_response = NoResponse
    /\ model_evaluation_artifact = NoEvaluationArtifact
    /\ e_exception = NoException

NextEvaluation ==
    \/ ReadTestCsv
    \/ AddCompanyAge
    \/ SplitFeaturesAndTarget
    \/ MapTarget
    \/ LoadTrainedModel
    \/ Predict
    \/ ComputeF1
    \/ AcceptModel
    \/ BuildEvaluationArtifact

SpecEvaluation == InitEvaluation /\ [][NextEvaluation]_vars

-----------------------------------------------------------------------------
(* Properties of the validation stage *)

TrainFile == csv_files[data_ingestion_artifact.trained_file_path]
TestFile == csv_files[data_ingestion_artifact.test_file_path]

\* The statement after the call has been reached, or a later call was made.
TrainColsChecked ==
    v_pc \in {"test_cols", "train_exist", "test_exist", "build", "done"} \/ exist_train.called
TestColsChecked ==
    v_pc \in {"train_exist", "test_exist", "build", "done"} \/ exist_train.called

NumberOfColumns(file) == Cardinality(DOMAIN file.columns)
ExpectedCount == Cardinality(DOMAIN schema_config.columns)

\* C1: validate_number_of_columns returns true exactly when the dataset has as
\* many columns as the schema's `columns` list has entries, and two datasets
\* with the same number of columns get the same result whatever their names.
C1_CountOnly ==
    /\ TrainColsChecked => (status_train_cols <=> NumberOfColumns(TrainFile) = ExpectedCount)
    /\ TestColsChecked => (status_test_cols <=> NumberOfColumns(TestFile) = ExpectedCount)
    /\ (TestColsChecked /\ NumberOfColumns(TrainFile) = NumberOfColumns(TestFile))
           => (status_train_cols <=> status_test_cols)

\* Both outcomes of the count check in one run, on frames with different names.
C1_Witness ==
    /\ TestColsChecked
    /\ status_train_cols /\ ~status_test_cols
    /\ Range(train_df.columns) # Range(schema_config.columns)

RequiredNames == Range(schema_config.numerical_columns)
                   \cup Range(schema_config.categorical_columns)

AbsentPositions(required, file) ==
    {i \in DOMAIN required : required[i] \notin Range(file.columns)}

ExistCallAgrees(call, file) ==
    (call.called /\ ~call.raised) =>
        /\ call.result <=> (\A n \in RequiredNames : n \in Range(file.columns))
        /\ Range(call.missing_numerical_columns)
               = Range(schema_config.numerical_columns) \ Range(file.columns)
        /\ Len(call.missing_numerical_columns)
               = Cardinality(AbsentPositions(schema_config.numerical_columns, file))
        /\ Range(call.missing_categorical_columns)
               = Range(schema_config.categorical_columns) \ Range(file.columns)
        /\ Len(call.missing_categorical_columns)
               = Cardinality(AbsentPositions(schema_config.categorical_columns, file))
        /\ ~call.result <=> (call.missing_numerical_columns # <<>>
                               \/ call.missing_categorical_columns # <<>>)
        /\ RequiredNames = {} => call.result

\* C2: is_column_exist returns true exactly when every required numerical and
\* categorical name is a column of the dataset; each missing list holds exactly
\* the absent names of its category; the check fails iff a list is non-empty;
\* an empty required set passes.
C2_RequiredColumns ==
    /\ ExistCallAgrees(exist_train, TrainFile)
    /\ ExistCallAgrees(exist_test, TestFile)

\* The train frame has every required name; the test frame lacks a categorical
\* name only.
C2_Witness ==
    /\ exist_test.called /\ ~exist_test.raised
    /\ schema_config.numerical_columns # <<>>
    /\ exist_train.result
    /\ exist_test.missing_numerical_columns = <<>>
    /\ exist_test.missing_categorical_columns # <<>>
    /\ ~exist_test.result

AllChecksPass ==
    /\ status_train_cols
    /\ status_test_cols
    /\ exist_train.result
    /\ exist_test.result

Phrase(status, phrase) == IF status THEN "" ELSE phrase

FailurePhrases ==
    Phrase(status_train_cols, TrainCountPhrase)
        \o Phrase(status_test_cols, TestCountPhrase)
        \o Phrase(exist_train.result, TrainExistPhrase)
        \o Phrase(exist_test.result, TestExistPhrase)

\* C3 as stated: the message is the success string iff all four checks pass,
\* and otherwise it is the bare concatenation of the failing checks' phrases.
C3_MessageIsConcatenation ==
    data_validation_artifact.produced =>
        /\ data_validation_artifact.message = SuccessMessage <=> AllChecksPass
        /\ ~AllChecksPass => data_validation_artifact.message = FailurePhrases

\* C3 (amended): the message is the success string iff all four checks pass,
\* and otherwise it is "Data validation failed due to: " followed by the
\* phrases of exactly the failing checks in the order train-count, test-count,
\* train-exist, test-exist.
C3_MessageIsPrefixedConcatenation ==
    data_validation_artifact.produced =>
        /\ data_validation_artifact.message = SuccessMessage <=> AllChecksPass
        /\ ~AllChecksPass =>
               data_validation_artifact.message = FailurePrefix \o FailurePhrases

\* A run in which the first and the last check fail and the two between pass.
C3_Witness ==
    /\ data_validation_artifact.produced
    /\ ~status_train_cols /\ status_test_cols
    /\ exist_train.result /\ ~exist_test.result

CountMatches(file) == Len(file.columns) = Len(schema_config.columns)
RequiredPresent(file) == RequiredNames \subseteq Range(file.columns)

\* C4: the returned validation_status is true iff no failure phrase was
\* appended, that is iff the count check and the required-column check hold of
\* the train dataset and of the test dataset.
C4_StatusIffAllPass ==
    data_validation_artifact.produced =>
        /\ data_validation_artifact.validation_status <=> validation_error_msg = ""
        /\ data_validation_artifact.validation_status <=>
               /\ CountMatches(TrainFile) /\ CountMatches(TestFile)
               /\ RequiredPresent(TrainFile) /\ RequiredPresent(TestFile)

\* A single failing check (required columns of the test dataset) fails the run.
C4_Witness ==
    /\ data_validation_artifact.produced
    /\ ~data_validation_artifact.validation_status
    /\ status_train_cols /\ status_test_cols /\ exist_train.result
    /\ ~exist_test.result

ValidationFails ==
    \/ ~TrainFile.readable
    \/ ~TestFile.readable
    \/ schema_config.keys # SchemaKeys

\* C6: when a dataset cannot be loaded or a schema key is missing, the run
\* ends by raising a wrapped USvisaException and no ValidationResult, partial
\* or otherwise, is produced.
C6_NoArtifactOnFailure ==
    /\ ValidationFails =>
           /\ data_validation_artifact = NoValidationArtifact
           /\ v_pc \notin {"build", "done"}
           /\ ~ENABLED NextValidation => v_pc = "raised"
    /\ v_pc = "raised" =>
           /\ data_validation_artifact = NoValidationArtifact
           /\ Len(v_exception) >= 2
           /\ v_exception[1] = "USvisaException"
           /\ v_exception[Len(v_exception)] \in {"FileNotFoundError", "KeyError"}
    /\ data_validation_artifact.produced => v_exception = NoException

\* Both files load, a count check has already appended its phrase, and then a
\* missing schema key raises: the partial message never becomes an artifact.
C6_Witness ==
    /\ v_pc = "raised"
    /\ TrainFile.readable /\ TestFile.readable
    /\ validation_error_msg # ""
    /\ ~data_validation_artifact.produced

\* C8 as stated: a dataset with an extra or a missing column relative to the
\* schema's columns fails the count check even when the counts coincide.
C8_NameMismatchFails ==
    (TrainColsChecked /\ Range(TrainFile.columns) # Range(schema_config.columns))
        => ~status_train_cols

\* C8 (amended): the count check looks at the count alone: a dataset with an
\* extra or a missing column relative to the schema's columns fails exactly
\* when its number of columns differs from the schema's, and passes when the
\* counts coincide.
C8_NameMismatchFailsIffCountDiffers ==
    (TrainColsChecked /\ Range(TrainFile.columns) # Range(schema_config.columns))
        => (~status_train_cols <=> NumberOfColumns(TrainFile) # ExpectedCount)

\* One column extra, one missing, same count: the check passes.
C8_Witness ==
    /\ TrainColsChecked
    /\ Range(TrainFile.columns) \ Range(schema_config.columns) # {}
    /\ Range(schema_config.columns) \ Range(TrainFile.columns) # {}
    /\ status_train_cols

-----------------------------------------------------------------------------
(* Properties of the evaluation stage *)

EvalTestFile == csv_files[data_ingestion_artifact.test_file_path]
TrainedModelFile == model_files[model_trainer_artifact.trained_model_file_path]

\* C5: every returned EvaluationResult has is_model_accepted = true and
\* changed_accuracy = 0.0, whatever the dataset, the predictor and the F1 score.
C5_AlwaysAccepted ==
    model_evaluation_artifact.produced =>
        /\ model_evaluation_artifact.is_model_accepted
        /\ model_evaluation_artifact.changed_accuracy = 0

\* The trained model scores 0 and a production model file exists: still accepted.
C5_Witness ==
    /\ model_evaluation_artifact.produced
    /\ evaluate_model_response.trained_model_f1_score = 0
    /\ model_files[model_eval_config.best_model_local_path].exists

StepOrder == <<"read_csv", "company_age", "split", "replace", "load_object",
               "predict", "f1_score", "accept">>

IsPrefix(s, t) == Len(s) <= Len(t) /\ s = SubSeq(t, 1, Len(s))

\* The first statement of evaluate_model that fails on the given inputs, as a
\* position in StepOrder; 0 when none fails.
FailingStep ==
    IF ~EvalTestFile.readable THEN 1
    ELSE IF YearColumn \notin Range(EvalTestFile.columns) THEN 2
    ELSE IF TARGET_COLUMN \notin Range(EvalTestFile.columns) THEN 3
    ELSE IF ~TrainedModelFile.exists THEN 5
    ELSE IF TrainedModelFile.predictor.raises THEN 6
    ELSE IF Range(EvalTestFile.target) \ DOMAIN TargetValueMapping # {} THEN 7
    ELSE 0

\* C7: when a step of the evaluation fails, the run ends by raising a wrapped
\* USvisaException, no EvaluateModelResponse or EvaluationResult is produced,
\* the failing step is started once and no step after it is started.
C7_FailFast ==
    /\ IsPrefix(steps, StepOrder)
    /\ FailingStep # 0 =>
           /\ evaluate_model_response = NoResponse
           /\ model_evaluation_artifact = NoEvaluationArtifact
           /\ Len(steps) <= FailingStep
           /\ ~ENABLED NextEvaluation => e_pc = "raised"
    /\ e_pc = "raised" =>
           /\ FailingStep # 0
           /\ steps = SubSeq(StepOrder, 1, FailingStep)
           /\ Len(e_exception) = 3
           /\ e_exception[1] = "USvisaException"
           /\ e_exception[2] = "USvisaException"
           /\ model_evaluation_artifact = NoEvaluationArtifact

\* The trained model file is missing: the run has raised at load_object.
C7_Witness ==
    /\ e_pc = "raised"
    /\ EvalTestFile.readable
    /\ ~TrainedModelFile.exists
    /\ steps[Len(steps)] = "load_object"
    /\ e_exception[3] = "FileNotFoundError"

\* C9: every returned EvaluateModelResponse reports the F1 score just computed
\* for the trained predictor as both trained and best score, the best score is
\* never None, and the only object ever loaded is the trained model.
C9_BestIsTrained ==
    /\ evaluate_model_response.returned =>
           /\ evaluate_model_response.trained_model_f1_score
                  = e_frame.trained_model_f1_score
           /\ evaluate_model_response.best_model_f1_score
                  = evaluate_model_response.trained_model_f1_score
           /\ evaluate_model_response.best_model_f1_score # None
    /\ \A i \in DOMAIN loaded_objects :
           loaded_objects[i] = model_trainer_artifact.trained_model_file_path
    /\ Len(loaded_objects) <= 1

\* A response for an imperfect trained model while a production model file exists.
C9_Witness ==
    /\ evaluate_model_response.returned
    /\ evaluate_model_response.trained_model_f1_score \in 1..999
    /\ model_files[model_eval_config.best_model_local_path].exists

ArtifactPackagesResponse ==
    model_evaluation_artifact.produced =>
        /\ model_evaluation_artifact.trained_model_path
               = model_trainer_artifact.trained_model_file_path
        /\ loaded_objects = <<model_evaluation_artifact.trained_model_path>>
        /\ evaluate_model_response.returned
        /\ model_evaluation_artifact.is_model_accepted
               = evaluate_model_response.is_model_accepted
        /\ model_evaluation_artifact.changed_accuracy
               = evaluate_model_response.difference

\* C10: the returned EvaluationResult carries the trained_model_file_path the
\* predictor was loaded from and the response's is_model_accepted and
\* difference, and no step changes the input artifacts, the configuration or
\* the files.
C10_PackagesAndFrame ==
    /\ []ArtifactPackagesResponse
    /\ [][UNCHANGED <<e_inputs, data_ingestion_artifact, csv_files>>]_vars

\* An artifact for the second of the two trained-model paths.
C10_Witness ==
    /\ model_evaluation_artifact.produced
    /\ model_trainer_artifact.trained_model_file_path = "model_retrained.pkl"
    /\ model_evaluation_artifact.trained_model_path = "model_retrained.pkl"

====
